---- MODULE Spec2Model ----
(***************************************************************************)
(* Model of the two stateful client-side components of the job board:      *)
(*   - CurrencyService (lib/currency): exchange-rate cache with TTL,       *)
(*     stale-cache fallback and a built-in fallback table;                 *)
(*   - AuthProvider (contexts/AuthContext.tsx): the session/profile        *)
(*     synchronizer driven by identity-provider events and UI calls.       *)
(* Each component has its own specifications (SpecCurrency and            *)
(* SpecConvert; SpecAuth, SpecProfile and SpecRegister); three page        *)
(* components (CurrencyConverter, DashboardPage, JobApplicationsPage) have *)
(* one each.  The variables of the other components stay at their initial  *)
(* value.                                                                  *)
(***************************************************************************)
EXTENDS Integers, Sequences, FiniteSets, Bags, TLC

VARIABLES
    \* ---- CurrencyService ----
    cache,      \* this.cache: CacheItem | null (or whatever JSON.parse gave)
    storage,    \* localStorage[CACHE_KEY]
    now,        \* Date.now(), in milliseconds
    calls,      \* history of getRates activations, in call order
    convs,      \* history of convertCurrency activations, in call order
    \* ---- AuthProvider ----
    user, profile, loading, error, isAuthenticated,   \* the React state
    path,       \* window.location.pathname
    session,    \* the identity provider's current session (a user id)
    db,         \* the remote profiles table
    tasks,      \* async activations (handlers, operations) suspended at an await
    lastOp,     \* what the step just taken completed
    \* ---- page components ----
    converter,  \* CurrencyConverter: its props, React state and pending awaits
    dashboard,  \* employer DashboardPage: jobs, stats, the jobs table, toggles
    appsPage    \* JobApplicationsPage: applications, updating, the table

curVars  == <<cache, storage, now, calls, convs>>
authVars == <<user, profile, loading, error, isAuthenticated, path, session, db, tasks, lastOp>>
pageVars == <<converter, dashboard, appsPage>>
vars     == <<cache, storage, now, calls, convs,
              user, profile, loading, error, isAuthenticated, path, session, db, tasks, lastOp,
              converter, dashboard, appsPage>>

\* A page component that is not mounted.
Unmounted == [mounted |-> FALSE]
PagesIdle == converter = Unmounted /\ dashboard = Unmounted /\ appsPage = Unmounted

(***************************************************************************)
(*                           CurrencyService                               *)
(***************************************************************************)

CACHE_DURATION == 60 * 60 * 1000
HalfTTL        == CACHE_DURATION \div 2

MaxCalls == 2       \* getRates activations in one behaviour
MaxTicks == 3       \* the clock advances in half-TTL steps up to MaxTicks of them

\* Rates are held in hundredths: the number 1 is RateUnit.
RateUnit == 100

Bases    == {"USD", "EUR"}                 \* base currencies asked for
ApiCodes == {"USD", "EUR", "GBP"}          \* codes in an API answer
Markets  == {0, 1}                         \* two different market days

\* A JavaScript value of type ExchangeRates | undefined.
Table(f)  == [isTable |-> TRUE, tbl |-> f]
Undefined == [isTable |-> FALSE, tbl |-> [c \in {} |-> 0]]

\* data.conversion_rates of a successful answer to GET .../latest/{base}:
\* the base itself is quoted at 1.
CrossRate(b, c) ==
    IF b = c THEN RateUnit
    ELSE IF b = "USD" THEN (IF c = "EUR" THEN 90 ELSE 75)
    ELSE IF b = "EUR" THEN (IF c = "USD" THEN 110 ELSE 85)
    ELSE (IF c = "USD" THEN 130 ELSE 115)

ApiRates(b, m) == Table([c \in ApiCodes |-> IF c = b THEN RateUnit ELSE CrossRate(b, c) + m])

\* The object literal returned when there is no cache at all.
FallbackRates ==
    Table([c \in {"USD", "EUR", "GBP", "JPY", "CAD", "AUD", "CHF", "CNY", "MXN", "BRL"} |->
        CASE c = "USD" -> 100
          [] c = "EUR" -> 85
          [] c = "GBP" -> 73
          [] c = "JPY" -> 11000
          [] c = "CAD" -> 125
          [] c = "AUD" -> 135
          [] c = "CHF" -> 92
          [] c = "CNY" -> 645
          [] c = "MXN" -> 2050
          [] c = "BRL" -> 520])

\* Values of this.cache.  "junk" is a truthy value that is not a CacheItem
\* (JSON.parse of stored text of another shape): both fields read undefined.
NullCache      == [kind |-> "null", rates |-> Undefined, timestamp |-> 0]
Item(r, t)     == [kind |-> "item", rates |-> r, timestamp |-> t]
JunkCache      == [kind |-> "junk", rates |-> Undefined, timestamp |-> 0]

\* Values of localStorage.getItem(CACHE_KEY): null, or a text.  A text is
\* described by what JSON.parse does with it.
NoEntry        == [kind |-> "absent", parses |-> FALSE, value |-> NullCache]
Garbage        == [kind |-> "text", parses |-> FALSE, value |-> NullCache]
JSONstringify(c) == [kind |-> "text", parses |-> TRUE, value |-> c]
JSONparse(s)   == [threw |-> ~s.parses, value |-> s.value]

\* loadFromLocalStorage: the cache after the constructor ran on storage s.
loadFromLocalStorage(s) ==
    IF s.kind = "absent" THEN NullCache
    ELSE IF JSONparse(s).threw THEN NullCache
    ELSE JSONparse(s).value

saveToLocalStorage_Never(c, s, setItemOk) == s

\* saveToLocalStorage: the storage after saving cache c; setItem may throw
\* (quota), which is caught and leaves the entry as it was.
saveToLocalStorage(c, s, setItemOk) ==
    IF c.kind # "null" /\ setItemOk THEN JSONstringify(c) ELSE s

isCacheValid_AlwaysFalse(c, t) == FALSE

\* isCacheValid at clock reading t.  A missing timestamp makes the
\* subtraction NaN and the comparison false.
isCacheValid(c, t) ==
    IF c.kind = "null" THEN FALSE
    ELSE IF c.kind = "junk" THEN FALSE
    ELSE (t - c.timestamp) < CACHE_DURATION

\* The promise of a getRates activation.
Resolved(v) == [status |-> "resolved", value |-> v]
Rejected    == [status |-> "rejected", value |-> Undefined]
Pending     == [status |-> "pending", value |-> Undefined]

getRatesCatch_NoStale(c) == Resolved(FallbackRates)
getRatesCatch_NoGBP(c) ==
    IF c.kind # "null" THEN Resolved(c.rates)
    ELSE Resolved(Table([x \in {"USD", "EUR"} |-> FallbackRates.tbl[x]]))
getRatesCatch_Rethrow(c) ==
    IF c.kind # "null" THEN Resolved(c.rates) ELSE Rejected

\* The catch block of getRates, with this.cache = c.
getRatesCatch(c) ==
    IF c.kind # "null" THEN Resolved(c.rates)
    ELSE Resolved(FallbackRates)

\* How the cache looked to a call at clock reading t.
CacheState(c, t) ==
    IF c.kind = "null" THEN "absent"
    ELSE IF c.kind = "junk" THEN "junk"
    ELSE IF isCacheValid(c, t) THEN "fresh" ELSE "stale"

Fetching == {i \in 1..Len(calls) : calls[i].pc = "fetching"}

\* The fetches that have been answered so far.
Answered == {i \in 1..Len(calls) : calls[i].fetched /\ calls[i].pc = "done"}

\* getRates(b) up to its first await: a cache hit resolves at once,
\* otherwise the request to the rate API is sent.
GetRatesCall(b) ==
    /\ Len(calls) < MaxCalls
    /\ LET hit == isCacheValid(cache, now) /\ cache.kind # "null"
           rec == [base     |-> b,
                   pc       |-> IF hit THEN "done" ELSE "fetching",
                   fetched  |-> ~hit,
                   outcome  |-> IF hit THEN "hit" ELSE "none",
                   pre      |-> CacheState(cache, now),
                   preRates |-> cache.rates,
                   atCatch  |-> cache,
                   openAtStart |-> Fetching,
                   startNow |-> now,
                   doneNow  |-> now,
                   order    |-> 0,
                   saved    |-> FALSE,
                   promise  |-> IF hit THEN Resolved(cache.rates) ELSE Pending]
       IN calls' = Append(calls, rec)
    /\ UNCHANGED <<cache, storage, now>>

\* The fetch of call i answers 2xx with result "success" and the table of
\* market day m: the cache is replaced, saved, and the table returned.
FetchSuccess(i, m, setItemOk) ==
    /\ i \in Fetching
    /\ LET rates == ApiRates(calls[i].base, m)
           c     == Item(rates, now)
       IN /\ cache' = c
          /\ storage' = saveToLocalStorage(c, storage, setItemOk)
          /\ calls' = [calls EXCEPT ![i].pc = "done", ![i].outcome = "ok",
                                    ![i].doneNow = now,
                                    ![i].order = Cardinality(Answered) + 1,
                                    ![i].saved = setItemOk,
                                    ![i].promise = Resolved(rates)]
    /\ UNCHANGED now

\* getRates with the fallback table stored by the catch block.
FetchFailure_Overwrites(i) ==
    /\ i \in Fetching
    /\ cache' = Item(FallbackRates, now)
    /\ calls' = [calls EXCEPT ![i].pc = "done", ![i].outcome = "fail",
                              ![i].doneNow = now,
                              ![i].order = Cardinality(Answered) + 1,
                              ![i].atCatch = cache,
                              ![i].promise = getRatesCatch(cache)]
    /\ UNCHANGED <<storage, now>>

\* The fetch of call i fails (network error, non-2xx, unparsable body or a
\* result other than "success"): the catch block decides.
FetchFailure(i) ==
    /\ i \in Fetching
    /\ calls' = [calls EXCEPT ![i].pc = "done", ![i].outcome = "fail",
                              ![i].doneNow = now,
                              ![i].order = Cardinality(Answered) + 1,
                              ![i].atCatch = cache,
                              ![i].promise = getRatesCatch(cache)]
    /\ UNCHANGED <<cache, storage, now>>

\* Time passes.
Tick ==
    /\ now < MaxTicks * HalfTTL
    /\ now' = now + HalfTTL
    /\ UNCHANGED <<cache, storage, calls>>

\* What a previous page session may have left under CACHE_KEY.
StoredValues ==
    {NoEntry, Garbage, JSONstringify(JunkCache)}
      \cup {JSONstringify(Item(ApiRates(b, 0), t)) : b \in Bases, t \in {0, HalfTTL}}

\* The synchronizer's variables while only the currency service is exercised.
AuthIdle ==
    /\ user = "null" /\ loading = TRUE /\ error = "null" /\ isAuthenticated = FALSE
    /\ profile = [id |-> "null", user_type |-> "null", rev |-> 0]
    /\ path = "/login" /\ session = "null"
    /\ db = <<>> /\ tasks = [t \in {} |-> 0] /\ lastOp = [op |-> "idle"]

InitCurrency ==
    /\ storage \in StoredValues
    /\ cache = loadFromLocalStorage(storage)
    /\ now = CACHE_DURATION
    /\ calls = <<>>
    /\ convs = <<>>
    /\ AuthIdle
    /\ PagesIdle

NextCurrency ==
    \/ (\E b \in Bases : GetRatesCall(b)) /\ UNCHANGED <<convs, authVars, pageVars>>
    \/ (\E i \in 1..MaxCalls, m \in Markets, ok \in BOOLEAN : FetchSuccess(i, m, ok))
          /\ UNCHANGED <<convs, authVars, pageVars>>
    \/ (\E i \in 1..MaxCalls : FetchFailure(i)) /\ UNCHANGED <<convs, authVars, pageVars>>
    \/ Tick /\ UNCHANGED <<convs, authVars, pageVars>>

SpecCurrency == InitCurrency /\ [][NextCurrency]_vars

\* ---- convertCurrency ----------------------------------------------------

MaxConvs == 2       \* convertCurrency activations in one behaviour

Amounts == {0, 7}                          \* amounts, in units of currency
Targets == {"USD", "MXN", "COP"}           \* codes converted to

\* The outcome of a convertCurrency activation: money is in hundredths, as
\* the rates are.
Returned(v)  == [status |-> "resolved", value |-> v, error |-> "none"]
Threw(e)     == [status |-> "rejected", value |-> 0, error |-> e]
Awaiting     == [status |-> "pending", value |-> 0, error |-> "none"]

SameCurrency_Never(from, to) == FALSE

\* fromCurrency === toCurrency
SameCurrency(from, to) == from = to

\* rates[toCurrency] of a table: undefined (here 0) for a missing code.
RateOf(rates, to) == IF to \in DOMAIN rates.tbl THEN rates.tbl[to] ELSE 0

\* convertCurrency(amount, from, to), where p is the promise of its call of
\* getRates(from).  Reading a property of undefined is a TypeError.
convertCurrency(amount, from, to, p) ==
    IF SameCurrency(from, to) THEN Returned(amount * RateUnit)
    ELSE IF p.status = "pending" THEN Awaiting
    ELSE IF p.status = "rejected" THEN Threw("getRates")
    ELSE IF ~p.value.isTable THEN Threw("TypeError")
    ELSE IF RateOf(p.value, to) = 0 THEN Threw("RateUnavailable")
    ELSE Returned(amount * RateOf(p.value, to))

\* The outcome so far of the k-th activation of convertCurrency.
Converted(k) ==
    LET cv == convs[k]
    IN convertCurrency(cv.amount, cv.from, cv.to,
                       IF cv.call = 0 THEN Pending ELSE calls[cv.call].promise)

\* convertCurrency(a, from, to) up to its first await.
ConvertCall(a, from, to) ==
    /\ Len(convs) < MaxConvs
    /\ IF SameCurrency(from, to)
       THEN /\ convs' = Append(convs, [amount |-> a, from |-> from, to |-> to, call |-> 0])
            /\ UNCHANGED <<cache, storage, now, calls>>
       ELSE /\ GetRatesCall(from)
            /\ convs' = Append(convs, [amount |-> a, from |-> from, to |-> to,
                                       call |-> Len(calls) + 1])

\* What a previous page session may have left under CACHE_KEY, as the
\* converter finds it: nothing, text of another shape, or a snapshot taken
\* a full or a half CACHE_DURATION ago.
StoredForConvert ==
    {NoEntry, JSONstringify(JunkCache),
     JSONstringify(Item(ApiRates("USD", 0), 0)),
     JSONstringify(Item(ApiRates("USD", 0), HalfTTL))}

InitConvert ==
    /\ storage \in StoredForConvert
    /\ cache = loadFromLocalStorage(storage)
    /\ now = CACHE_DURATION
    /\ calls = <<>>
    /\ convs = <<>>
    /\ AuthIdle
    /\ PagesIdle

NextConvert ==
    \/ (\E a \in Amounts, from \in Bases, to \in Targets : ConvertCall(a, from, to))
          /\ UNCHANGED <<authVars, pageVars>>
    \/ (\E i \in 1..MaxCalls, m \in Markets : FetchSuccess(i, m, TRUE))
          /\ UNCHANGED <<convs, authVars, pageVars>>
    \/ (\E i \in 1..MaxCalls : FetchFailure(i)) /\ UNCHANGED <<convs, authVars, pageVars>>

SpecConvert == InitConvert /\ [][NextConvert]_vars

(***************************************************************************)
(*                  AuthProvider (contexts/AuthContext.tsx)                *)
(***************************************************************************)

MaxTasks == 2       \* activations started by the UI or the provider that may be pending at once
MaxOps   == 2       \* activations started in one behaviour (after initAuth)
MaxRev   == 2       \* writes a row of profiles may receive

Null    == "null"
UserIds == {"u1", "u2"}
Paths   == {"/login", "/register", "/dashboard", "/jobs"}

\* Profile | null, as held in React state and as a row of the profiles table.
NullProfile   == [id |-> Null, user_type |-> Null, rev |-> 0]
UserTypeOf(u) == IF u = "u2" THEN "employer" ELSE "applicant"
Row(u, r)     == [id |-> u, user_type |-> UserTypeOf(u), rev |-> r]

\* The statuses an error of the profile query may carry (0: any other than
\* 401 and 403, or none, as for a network failure or a missing row).
ErrStatus == {0, 401, 403}

IsAuthorizationError_Any(status) == TRUE

IsAuthorizationError(status) == status = 401 \/ status = 403

\* The row-level-security policy "Users can read own profile":
\* a query made with the token of tok sees the row of u only if tok = u.
CanRead(tok, u) == tok = u /\ db[u].exists

RedirectAfterLoad_Always(p, data) ==
    IF data.user_type = "employer" THEN "/dashboard" ELSE "/jobs"

\* navigate() of loadUserProfile after a successful fetch.
RedirectAfterLoad(p, data) ==
    IF p = "/login" \/ p = "/register"
    THEN (IF data.user_type = "employer" THEN "/dashboard" ELSE "/jobs")
    ELSE p

\* An activation suspended at an await.  tok is the session its request was
\* sent with; during tells what the activation has seen happen since.
Task(kind, pc, uid, tok) ==
    [kind |-> kind, pc |-> pc, uid |-> uid, tok |-> tok,
     during |-> "nothing", status |-> 0]

\* The pending activations form a bag: their order carries no meaning.
NoTasks      == [t \in {} |-> 0]
NumTasks(ts) == BagCardinality(ts)
Add(ts, t)   == ts (+) SetToBag({t})
Remove(ts, t) == ts (-) SetToBag({t})

\* What the other pending activations have seen happen since their request
\* was sent: nothing, only SIGNED_OUT handling, or something else that
\* changed user, profile or isAuthenticated.
MarkOne(t, signedOut, changed) ==
    IF signedOut
    THEN [t EXCEPT !.during = IF @ = "other" THEN "other" ELSE "signedOut"]
    ELSE IF changed THEN [t EXCEPT !.during = "other"]
    ELSE t

RECURSIVE Copies(_, _, _, _)
Copies(ts, S, signedOut, changed) ==
    IF S = {} THEN NoTasks
    ELSE LET t == CHOOSE x \in S : TRUE
         IN [r \in {MarkOne(t, signedOut, changed)} |-> ts[t]]
              (+) Copies(ts, S \ {t}, signedOut, changed)

Mark(ts, signedOut, changed) == Copies(ts, DOMAIN ts, signedOut, changed)

\* One step of the provider: the new React state; the other pending
\* activations (rest) take note, the acting one goes on as mine.
SetState(u, p, a, rest, mine, signedOut) ==
    /\ user' = u /\ profile' = p /\ isAuthenticated' = a
    /\ tasks' = Mark(rest, signedOut,
                     <<u, p, a>> # <<user, profile, isAuthenticated>>) (+) mine

Started   == lastOp.n
Count(op) == [op EXCEPT !.n = IF lastOp.n < MaxOps THEN lastOp.n + 1 ELSE MaxOps]
Op(name, t) ==
    [op |-> name, kind |-> t.kind, status |-> t.status, during |-> t.during,
     n |-> lastOp.n, threw |-> FALSE]
Plain(name) ==
    [op |-> name, kind |-> "none", status |-> 0, during |-> "nothing",
     n |-> lastOp.n, threw |-> FALSE]

\* The operations whose finally block runs setLoading(false).
SetsLoading(kind) == kind \in {"initAuth", "signUp", "signIn", "updateProfile"}

CanStart == NumTasks(tasks) < MaxTasks /\ Started < MaxOps

At(t, pc) == t \in DOMAIN tasks /\ t.pc = pc

\* ---- initAuth -----------------------------------------------------------

\* initAuth with the call of loadUserProfile left out.
InitAuthSession_NoFetch(t) ==
    /\ At(t, "getUser")
    /\ session # Null
    /\ SetState(session, profile, isAuthenticated, Remove(tasks, t), NoTasks, FALSE)
    /\ loading' = FALSE
    /\ lastOp' = Plain("initAuthSession")
    /\ UNCHANGED <<error, path, session, db>>

\* getCurrentUser() resolved with a user: setUser, then loadUserProfile
\* sends the profile query.
InitAuthSession(t) ==
    /\ At(t, "getUser")
    /\ session # Null
    /\ SetState(session, profile, isAuthenticated, Remove(tasks, t),
                SetToBag({Task("initAuth", "fetch", session, session)}), FALSE)
    /\ lastOp' = Plain("initAuthSession")
    /\ UNCHANGED <<loading, error, path, session, db>>

\* getCurrentUser() resolved with null.
InitAuthNoSession(t) ==
    /\ At(t, "getUser")
    /\ SetState(Null, NullProfile, FALSE, Remove(tasks, t), NoTasks, FALSE)
    /\ loading' = FALSE
    /\ lastOp' = Plain("initAuthDone")
    /\ UNCHANGED <<error, path, session, db>>

\* getCurrentUser() threw.
InitAuthThrows(t) ==
    /\ At(t, "getUser")
    /\ SetState(user, profile, isAuthenticated, Remove(tasks, t), NoTasks, FALSE)
    /\ error' = "SessionLoadError"
    /\ loading' = FALSE
    /\ lastOp' = Plain("initAuthFailed")
    /\ UNCHANGED <<path, session, db>>

\* ---- onAuthStateChange handler ------------------------------------------

\* The provider delivers SIGNED_IN with a session of u (sign-in in another
\* tab, session recovery): setUser, then loadUserProfile sends the query.
SignedInEvent(u) ==
    /\ CanStart
    /\ session' = u
    /\ SetState(u, profile, isAuthenticated, tasks,
                SetToBag({Task("onSignedIn", "fetch", u, u)}), FALSE)
    /\ lastOp' = Count(Plain("step"))
    /\ UNCHANGED <<loading, error, path, db>>

\* The provider delivers SIGNED_OUT: the tuple is cleared.
SignedOutEvent ==
    /\ session # Null
    /\ session' = Null
    /\ SetState(Null, NullProfile, FALSE, tasks, NoTasks, TRUE)
    /\ lastOp' = Plain("SIGNED_OUT")
    /\ UNCHANGED <<loading, error, path, db>>

\* ---- loadUserProfile ----------------------------------------------------

\* After loadUserProfile returned, the caller's continuation: the finally
\* block of the operation, if it has one.
\* The callers that await the operation of t and go on once it resolved.
Callers(t) ==
    IF t.kind = "signUp" THEN SetToBag({[t EXCEPT !.pc = "resolved"]}) ELSE NoTasks

Finish(t, name, u, p, a, signedOut) ==
    /\ SetState(u, p, a, Remove(tasks, t), Callers(t), signedOut)
    /\ loading' = IF SetsLoading(t.kind) THEN FALSE ELSE loading
    /\ lastOp' = Op(name, t)

\* The query returned the row: setProfile, setIsAuthenticated(true), redirect.
FetchOk(t) ==
    /\ At(t, "fetch")
    /\ CanRead(t.tok, t.uid)
    /\ LET data == Row(t.uid, db[t.uid].rev)
       IN /\ Finish(t, "profileLoaded", user, data, TRUE, FALSE)
          /\ path' = RedirectAfterLoad(path, data)
    /\ UNCHANGED <<error, session, db>>

\* The query failed with an error of the given status: setError; an
\* authorization error goes on to handleSignOut, which awaits the
\* provider's signOut.
FetchError(t, status) ==
    /\ At(t, "fetch")
    /\ error' = "ProfileLoadError"
    /\ IF IsAuthorizationError(status)
       THEN /\ SetState(user, profile, isAuthenticated, Remove(tasks, t),
                        SetToBag({[t EXCEPT !.pc = "handleSignOut", !.status = status]}),
                        FALSE)
            /\ lastOp' = Plain("step")
            /\ UNCHANGED loading
       ELSE Finish([t EXCEPT !.status = status], "profileFailed",
                   user, profile, isAuthenticated, FALSE)
    /\ UNCHANGED <<path, session, db>>

\* handleSignOut: the provider's signOut resolved (it delivers SIGNED_OUT to
\* the handler on the way): the tuple is cleared and the UI sent to /login.
HandleSignOutOk(t) ==
    /\ At(t, "handleSignOut")
    /\ session' = Null
    /\ Finish(t, "profileFailed", Null, NullProfile, FALSE, TRUE)
    /\ path' = "/login"
    /\ UNCHANGED <<error, db>>

\* handleSignOut: the provider's signOut threw: only the error is recorded.
HandleSignOutThrows(t) ==
    /\ At(t, "handleSignOut")
    /\ Finish(t, "profileFailed", user, profile, isAuthenticated, FALSE)
    /\ error' = "SignOutError"
    /\ UNCHANGED <<path, session, db>>

\* ---- operations of the context value ------------------------------------

\* signIn up to its first await.
SignInCall ==
    /\ ~loading /\ CanStart
    /\ loading' = TRUE
    /\ error' = Null
    /\ tasks' = Add(tasks, Task("signIn", "signInCall", Null, session))
    /\ lastOp' = Count(Plain("step"))
    /\ UNCHANGED <<user, profile, isAuthenticated, path, session, db>>

\* signInWithEmail resolved for u.  The provider has delivered SIGNED_IN to
\* the handler (setUser, profile query sent) before signIn goes on.
SignInResolved(t, u) ==
    /\ At(t, "signInCall")
    /\ session' = u
    /\ SetState(u, profile, isAuthenticated, Remove(tasks, t),
                SetToBag({Task("signIn", "signedIn", u, u)})
                  (+) SetToBag({Task("onSignedIn", "fetch", u, u)}),
                FALSE)
    /\ lastOp' = Plain("step")
    /\ UNCHANGED <<loading, error, path, db>>

\* signIn goes on after signInWithEmail: loadUserProfile(user.id).
SignInContinue(t) ==
    /\ At(t, "signedIn")
    /\ tasks' = Add(Remove(tasks, t), Task("signIn", "fetch", t.uid, session))
    /\ lastOp' = Plain("step")
    /\ UNCHANGED <<user, profile, isAuthenticated, loading, error, path, session, db>>

\* signInWithEmail threw: setError, rethrow, finally setLoading(false).
SignInThrows(t) ==
    /\ At(t, "signInCall")
    /\ tasks' = Remove(tasks, t)
    /\ error' = "AuthError"
    /\ loading' = FALSE
    /\ lastOp' = Plain("step")
    /\ UNCHANGED <<user, profile, isAuthenticated, path, session, db>>

\* signOut up to its first await.
SignOutCall ==
    /\ ~loading /\ CanStart
    /\ loading' = TRUE
    /\ error' = Null
    /\ tasks' = Add(tasks, Task("signOut", "signOutCall", Null, session))
    /\ lastOp' = Count(Plain("step"))
    /\ UNCHANGED <<user, profile, isAuthenticated, path, session, db>>

\* signOut with setProfile(null) left out.
SignOutResolved_KeepsProfile(t) ==
    /\ At(t, "signOutCall")
    /\ session' = Null
    /\ SetState(Null, profile, FALSE, Remove(tasks, t), NoTasks, TRUE)
    /\ path' = "/login"
    /\ loading' = FALSE
    /\ lastOp' = Plain("signOutDone")
    /\ UNCHANGED <<error, db>>

\* The provider's signOut resolved (SIGNED_OUT is delivered on the way):
\* the tuple is cleared, the UI sent to /login, loading reset.
SignOutResolved(t) ==
    /\ At(t, "signOutCall")
    /\ session' = Null
    /\ SetState(Null, NullProfile, FALSE, Remove(tasks, t), NoTasks, TRUE)
    /\ path' = "/login"
    /\ loading' = FALSE
    /\ lastOp' = Plain("signOutDone")
    /\ UNCHANGED <<error, db>>

\* The provider's signOut threw: setError, finally setLoading(false).
SignOutThrows(t) ==
    /\ At(t, "signOutCall")
    /\ tasks' = Remove(tasks, t)
    /\ error' = "SignOutError"
    /\ loading' = FALSE
    /\ lastOp' = Plain("signOutFailed")
    /\ UNCHANGED <<user, profile, isAuthenticated, path, session, db>>

\* ---- updateProfile ------------------------------------------------------

\* The promise of the operation rejects: the caller's catch block runs.
Thrown(name) == [Plain(name) EXCEPT !.threw = TRUE]

\* The policy "Users can update own profile": an update made with the token
\* of tok matches the row of u only if tok = u; matching no row is no error.
CanUpdate(tok, u) == tok = u /\ db[u].exists

\* updateProfile with a user: setLoading(true), clearError, then the update
\* of the row of user.id is sent and awaited.
UpdateProfileCall ==
    /\ ~loading /\ CanStart
    /\ user # Null
    /\ loading' = TRUE
    /\ error' = Null
    /\ tasks' = Add(tasks, Task("updateProfile", "updateCall", user, session))
    /\ lastOp' = Count(Plain("updateStarted"))
    /\ UNCHANGED <<user, profile, isAuthenticated, path, session, db>>

\* updateProfile without a user: the throw inside the try block is caught,
\* setError runs, the error is thrown again; finally setLoading(false).
UpdateProfileNoUser ==
    /\ ~loading
    /\ user = Null
    /\ error' = "UpdateError"
    /\ lastOp' = Thrown("updateRejected")
    /\ UNCHANGED <<user, profile, isAuthenticated, loading, path, session, db, tasks>>

\* updateUserProfile returned without error: loadUserProfile(user.id), with
\* the user of the render that called updateProfile, sends the profile query.
UpdateWriteOk(t) ==
    /\ At(t, "updateCall")
    /\ db[t.uid].rev < MaxRev
    /\ db' = IF CanUpdate(t.tok, t.uid)
             THEN [db EXCEPT ![t.uid].rev = @ + 1]
             ELSE db
    /\ tasks' = Add(Remove(tasks, t), [t EXCEPT !.pc = "fetch", !.tok = session])
    /\ lastOp' = Plain("updateWritten")
    /\ UNCHANGED <<user, profile, isAuthenticated, loading, error, path, session>>

\* updateUserProfile with the re-fetch made although the write failed.
UpdateWriteThrows_Refetch(t) ==
    /\ At(t, "updateCall")
    /\ tasks' = Add(Remove(tasks, t), [t EXCEPT !.pc = "fetch", !.tok = session])
    /\ error' = "UpdateError"
    /\ lastOp' = Thrown("updateFailed")
    /\ UNCHANGED <<user, profile, isAuthenticated, loading, path, session, db>>

\* updateUserProfile threw: setError, the error is thrown again; finally
\* setLoading(false).
UpdateWriteThrows(t) ==
    /\ At(t, "updateCall")
    /\ tasks' = Remove(tasks, t)
    /\ error' = "UpdateError"
    /\ loading' = FALSE
    /\ lastOp' = Thrown("updateFailed")
    /\ UNCHANGED <<user, profile, isAuthenticated, path, session, db>>

\* ---- RegisterPage.onSubmit and signUp -----------------------------------

UserTypes == {"applicant", "employer"}

\* The values of the registration form (RegisterFormData without the
\* credentials).
Forms ==
    [userType : UserTypes, fullName : {"Ana"}, companyName : {Null, "Acme"},
     companyDescription : {Null}, phone : {Null}, location : {Null}]

\* The object onSubmit builds from the form and passes to signUp.
RegisterProfile(rest) ==
    [full_name           |-> rest.fullName,
     company_name        |-> rest.companyName,
     company_description |-> rest.companyDescription,
     phone               |-> rest.phone,
     location            |-> rest.location]

\* onSubmit of the registration form calls signUp(email, password, profile):
\* setLoading(true), clearError, then signUpWithEmail is awaited.
RegisterSubmit(form) ==
    /\ ~loading /\ CanStart
    /\ path = "/register" /\ ~isAuthenticated
    /\ loading' = TRUE
    /\ error' = Null
    /\ tasks' = Add(tasks, Task("signUp", "signUpCall", Null, session))
    /\ lastOp' = Count(Plain("signUpStarted")
                         @@ [form |-> form, userData |-> RegisterProfile(form)])
    /\ UNCHANGED <<user, profile, isAuthenticated, path, session, db>>

\* signUpWithEmail resolved with user u.  When the provider opens a session
\* at once it has delivered SIGNED_IN to the handler (setUser, profile query
\* sent); with e-mail confirmation pending there is no session and no event.
\* signUp goes on to createUserProfile(user.id, email, userData).
SignUpResolved(t, u, withSession) ==
    /\ At(t, "signUpCall")
    /\ session' = IF withSession THEN u ELSE session
    /\ LET next == [t EXCEPT !.pc = "createProfile", !.uid = u,
                             !.tok = IF withSession THEN u ELSE session]
       IN IF withSession
          THEN SetState(u, profile, isAuthenticated, Remove(tasks, t),
                        SetToBag({next}) (+) SetToBag({Task("onSignedIn", "fetch", u, u)}),
                        FALSE)
          ELSE SetState(user, profile, isAuthenticated, Remove(tasks, t),
                        SetToBag({next}), FALSE)
    /\ lastOp' = Plain("step")
    /\ UNCHANGED <<loading, error, path, db>>

\* signUp without its finally block.
SignUpThrows_NoFinally(t) ==
    /\ At(t, "signUpCall")
    /\ tasks' = Remove(tasks, t)
    /\ error' = "SignUpError"
    /\ lastOp' = Thrown("signUpFailed")
    /\ UNCHANGED <<user, profile, isAuthenticated, loading, path, session, db>>

\* signUpWithEmail threw: setError, the error is thrown again; finally
\* setLoading(false).  onSubmit shows the error.
SignUpThrows(t) ==
    /\ At(t, "signUpCall")
    /\ tasks' = Remove(tasks, t)
    /\ error' = "SignUpError"
    /\ loading' = FALSE
    /\ lastOp' = Thrown("signUpFailed")
    /\ UNCHANGED <<user, profile, isAuthenticated, path, session, db>>

\* The policy "Users can insert own profile".
CanInsert(tok, u) == tok = u

\* createUserProfile returned, or threw a duplicate-key error that signUp
\* swallows: loadUserProfile(user.id) sends the profile query.
CreateProfileOk(t) ==
    /\ At(t, "createProfile")
    /\ db[t.uid].exists \/ CanInsert(t.tok, t.uid)
    /\ db' = [db EXCEPT ![t.uid].exists = TRUE]
    /\ tasks' = Add(Remove(tasks, t), [t EXCEPT !.pc = "fetch", !.tok = session])
    /\ lastOp' = Plain("step")
    /\ UNCHANGED <<user, profile, isAuthenticated, loading, error, path, session>>

\* createUserProfile threw another error: setError, the error is thrown
\* again; finally setLoading(false).
CreateProfileThrows(t) ==
    /\ At(t, "createProfile")
    /\ tasks' = Remove(tasks, t)
    /\ error' = "SignUpError"
    /\ loading' = FALSE
    /\ lastOp' = Thrown("signUpFailed")
    /\ UNCHANGED <<user, profile, isAuthenticated, path, session, db>>

\* signUp resolved: onSubmit shows the success toast and navigates to /login.
RegisterDone(t) ==
    /\ At(t, "resolved")
    /\ tasks' = Remove(tasks, t)
    /\ path' = "/login"
    /\ lastOp' = Plain("registered")
    /\ UNCHANGED <<user, profile, isAuthenticated, loading, error, session, db>>

\* refreshProfile: loadUserProfile(user.id) when there is a user.
RefreshProfileCall ==
    /\ ~loading /\ CanStart
    /\ user # Null
    /\ tasks' = Add(tasks, Task("refreshProfile", "fetch", user, session))
    /\ lastOp' = Count(Plain("step"))
    /\ UNCHANGED <<user, profile, isAuthenticated, loading, error, path, session, db>>

\* clearError.
ClearError ==
    /\ ~loading
    /\ error # Null
    /\ error' = Null
    /\ lastOp' = Plain("step")
    /\ UNCHANGED <<user, profile, isAuthenticated, loading, path, session, db, tasks>>

\* The user follows a link or types a URL.
UserNavigate(p) ==
    /\ ~loading
    /\ p # path
    /\ path' = p
    /\ lastOp' = Plain("step")
    /\ UNCHANGED <<user, profile, isAuthenticated, loading, error, session, db, tasks>>

CurrencyIdle ==
    /\ cache = NullCache /\ storage = NoEntry /\ now = 0 /\ calls = <<>>
    /\ convs = <<>>

\* The state after AuthProvider mounted: the effect has called initAuth,
\* which awaits getCurrentUser(), and subscribed the handler.
InitAuth ==
    /\ user = Null /\ profile = NullProfile /\ loading = TRUE
    /\ error = Null /\ isAuthenticated = FALSE
    /\ path \in Paths
    /\ session \in UserIds \cup {Null}
    /\ db = [u \in UserIds |-> [exists |-> TRUE, rev |-> 0]]
    /\ tasks = SetToBag({Task("initAuth", "getUser", Null, session)})
    /\ lastOp = [op |-> "mount", kind |-> "none", status |-> 0, during |-> "nothing",
                 n |-> 0, threw |-> FALSE]
    /\ CurrencyIdle
    /\ PagesIdle

NextAuth ==
    \/ (\E t \in DOMAIN tasks : InitAuthSession(t)) /\ UNCHANGED <<curVars, pageVars>>
    \/ (\E t \in DOMAIN tasks : InitAuthNoSession(t)) /\ UNCHANGED <<curVars, pageVars>>
    \/ (\E t \in DOMAIN tasks : InitAuthThrows(t)) /\ UNCHANGED <<curVars, pageVars>>
    \/ (\E u \in UserIds : SignedInEvent(u)) /\ UNCHANGED <<curVars, pageVars>>
    \/ SignedOutEvent /\ UNCHANGED <<curVars, pageVars>>
    \/ (\E t \in DOMAIN tasks : FetchOk(t)) /\ UNCHANGED <<curVars, pageVars>>
    \/ (\E t \in DOMAIN tasks, st \in ErrStatus : FetchError(t, st)) /\ UNCHANGED <<curVars, pageVars>>
    \/ (\E t \in DOMAIN tasks : HandleSignOutOk(t)) /\ UNCHANGED <<curVars, pageVars>>
    \/ (\E t \in DOMAIN tasks : HandleSignOutThrows(t)) /\ UNCHANGED <<curVars, pageVars>>
    \/ SignInCall /\ UNCHANGED <<curVars, pageVars>>
    \/ (\E t \in DOMAIN tasks, u \in UserIds : SignInResolved(t, u)) /\ UNCHANGED <<curVars, pageVars>>
    \/ (\E t \in DOMAIN tasks : SignInContinue(t)) /\ UNCHANGED <<curVars, pageVars>>
    \/ (\E t \in DOMAIN tasks : SignInThrows(t)) /\ UNCHANGED <<curVars, pageVars>>
    \/ SignOutCall /\ UNCHANGED <<curVars, pageVars>>
    \/ (\E t \in DOMAIN tasks : SignOutResolved(t)) /\ UNCHANGED <<curVars, pageVars>>
    \/ (\E t \in DOMAIN tasks : SignOutThrows(t)) /\ UNCHANGED <<curVars, pageVars>>
    \/ RefreshProfileCall /\ UNCHANGED <<curVars, pageVars>>
    \/ ClearError /\ UNCHANGED <<curVars, pageVars>>
    \/ (\E p \in Paths : UserNavigate(p)) /\ UNCHANGED <<curVars, pageVars>>

SpecAuth == InitAuth /\ [][NextAuth]_vars

\* The provider with the profile page: startup, the provider's events, the
\* profile queries and updateProfile.
NextProfile ==
    \/ (\E t \in DOMAIN tasks : InitAuthSession(t)) /\ UNCHANGED <<curVars, pageVars>>
    \/ (\E t \in DOMAIN tasks : InitAuthNoSession(t)) /\ UNCHANGED <<curVars, pageVars>>
    \/ (\E t \in DOMAIN tasks : InitAuthThrows(t)) /\ UNCHANGED <<curVars, pageVars>>
    \/ (\E u \in UserIds : SignedInEvent(u)) /\ UNCHANGED <<curVars, pageVars>>
    \/ SignedOutEvent /\ UNCHANGED <<curVars, pageVars>>
    \/ (\E t \in DOMAIN tasks : FetchOk(t)) /\ UNCHANGED <<curVars, pageVars>>
    \/ (\E t \in DOMAIN tasks, st \in ErrStatus : FetchError(t, st)) /\ UNCHANGED <<curVars, pageVars>>
    \/ (\E t \in DOMAIN tasks : HandleSignOutOk(t)) /\ UNCHANGED <<curVars, pageVars>>
    \/ (\E t \in DOMAIN tasks : HandleSignOutThrows(t)) /\ UNCHANGED <<curVars, pageVars>>
    \/ UpdateProfileCall /\ UNCHANGED <<curVars, pageVars>>
    \/ UpdateProfileNoUser /\ UNCHANGED <<curVars, pageVars>>
    \/ (\E t \in DOMAIN tasks : UpdateWriteOk(t)) /\ UNCHANGED <<curVars, pageVars>>
    \/ (\E t \in DOMAIN tasks : UpdateWriteThrows(t)) /\ UNCHANGED <<curVars, pageVars>>

SpecProfile == InitAuth /\ [][NextProfile]_vars

\* The state after AuthProvider mounted when u2 has not registered yet.
InitRegister ==
    /\ user = Null /\ profile = NullProfile /\ loading = TRUE
    /\ error = Null /\ isAuthenticated = FALSE
    /\ path \in {"/register", "/login"}
    /\ session \in {"u1", Null}
    /\ db = [u \in UserIds |-> [exists |-> u = "u1", rev |-> 0]]
    /\ tasks = SetToBag({Task("initAuth", "getUser", Null, session)})
    /\ lastOp = [op |-> "mount", kind |-> "none", status |-> 0, during |-> "nothing",
                 n |-> 0, threw |-> FALSE]
    /\ CurrencyIdle
    /\ PagesIdle

\* One status of each kind of failure: an authorization error and another.
SomeStatus == {0, 401}

\* A step in which a backend call of some activation returns or throws, or
\* a caller goes on after the promise it awaited.
Returns ==
    /\ UNCHANGED <<curVars, pageVars>>
    /\ \E t \in DOMAIN tasks :
           \/ InitAuthSession(t) \/ InitAuthNoSession(t) \/ InitAuthThrows(t)
           \/ FetchOk(t) \/ (\E st \in SomeStatus : FetchError(t, st))
           \/ HandleSignOutOk(t) \/ HandleSignOutThrows(t)
           \/ (\E u \in UserIds : SignInResolved(t, u)) \/ SignInContinue(t) \/ SignInThrows(t)
           \/ SignOutResolved(t) \/ SignOutThrows(t)
           \/ UpdateWriteOk(t) \/ UpdateWriteThrows(t)
           \/ (\E u \in UserIds, ws \in BOOLEAN : SignUpResolved(t, u, ws)) \/ SignUpThrows(t)
           \/ CreateProfileOk(t) \/ CreateProfileThrows(t)
           \/ RegisterDone(t)

\* The provider with the operations that set loading: startup, signUp from
\* the registration page, signIn, signOut and updateProfile, with the
\* events the provider delivers in the course of those operations.
NextRegister ==
    \/ (\E t \in DOMAIN tasks : InitAuthSession(t)) /\ UNCHANGED <<curVars, pageVars>>
    \/ (\E t \in DOMAIN tasks : InitAuthNoSession(t)) /\ UNCHANGED <<curVars, pageVars>>
    \/ (\E t \in DOMAIN tasks : InitAuthThrows(t)) /\ UNCHANGED <<curVars, pageVars>>
    \/ (\E t \in DOMAIN tasks : FetchOk(t)) /\ UNCHANGED <<curVars, pageVars>>
    \/ (\E t \in DOMAIN tasks, st \in SomeStatus : FetchError(t, st)) /\ UNCHANGED <<curVars, pageVars>>
    \/ (\E t \in DOMAIN tasks : HandleSignOutOk(t)) /\ UNCHANGED <<curVars, pageVars>>
    \/ (\E t \in DOMAIN tasks : HandleSignOutThrows(t)) /\ UNCHANGED <<curVars, pageVars>>
    \/ (\E form \in Forms : RegisterSubmit(form)) /\ UNCHANGED <<curVars, pageVars>>
    \/ (\E t \in DOMAIN tasks, u \in UserIds, ws \in BOOLEAN : SignUpResolved(t, u, ws))
          /\ UNCHANGED <<curVars, pageVars>>
    \/ (\E t \in DOMAIN tasks : SignUpThrows(t)) /\ UNCHANGED <<curVars, pageVars>>
    \/ (\E t \in DOMAIN tasks : CreateProfileOk(t)) /\ UNCHANGED <<curVars, pageVars>>
    \/ (\E t \in DOMAIN tasks : CreateProfileThrows(t)) /\ UNCHANGED <<curVars, pageVars>>
    \/ (\E t \in DOMAIN tasks : RegisterDone(t)) /\ UNCHANGED <<curVars, pageVars>>
    \/ SignInCall /\ UNCHANGED <<curVars, pageVars>>
    \/ (\E t \in DOMAIN tasks, u \in UserIds : SignInResolved(t, u)) /\ UNCHANGED <<curVars, pageVars>>
    \/ (\E t \in DOMAIN tasks : SignInContinue(t)) /\ UNCHANGED <<curVars, pageVars>>
    \/ (\E t \in DOMAIN tasks : SignInThrows(t)) /\ UNCHANGED <<curVars, pageVars>>
    \/ SignOutCall /\ UNCHANGED <<curVars, pageVars>>
    \/ (\E t \in DOMAIN tasks : SignOutResolved(t)) /\ UNCHANGED <<curVars, pageVars>>
    \/ (\E t \in DOMAIN tasks : SignOutThrows(t)) /\ UNCHANGED <<curVars, pageVars>>
    \/ UpdateProfileCall /\ UNCHANGED <<curVars, pageVars>>
    \/ (\E t \in DOMAIN tasks : UpdateWriteOk(t)) /\ UNCHANGED <<curVars, pageVars>>
    \/ (\E t \in DOMAIN tasks : UpdateWriteThrows(t)) /\ UNCHANGED <<curVars, pageVars>>

SpecRegister == InitRegister /\ [][NextRegister]_vars

\* Every backend call eventually returns.
SpecRegisterLive == SpecRegister /\ WF_vars(Returns)

(***************************************************************************)
(*                      Claims about CurrencyService                       *)
(***************************************************************************)

Done(i) == calls[i].pc = "done"

\* Call j started after call i had resolved.
After(i, j) == i < j /\ i \notin calls[j].openAtStart

NetworkFetches(i, j) ==
    (IF calls[i].fetched THEN 1 ELSE 0) + (IF calls[j].fetched THEN 1 ELSE 0)

\* C1 (as stated): for every base b, two calls getRates(b), the second made
\* less than CACHE_DURATION after the first (which opens the window by going
\* to the network), perform exactly one network fetch in total.
C1_TwoCallsOneFetch ==
    \A i, j \in 1..Len(calls) :
        ( /\ After(i, j) /\ Done(i) /\ Done(j)
          /\ calls[i].base = calls[j].base
          /\ calls[i].fetched
          /\ calls[j].startNow - calls[i].startNow < CACHE_DURATION )
        => NetworkFetches(i, j) = 1

\* C1 (amended): once the fetch of a getRates call has succeeded, a call that
\* starts after it and reads the clock less than CACHE_DURATION after the
\* snapshot's timestamp performs no fetch: the two calls perform exactly one.
C1_OneFetchAfterSuccess ==
    \A i, j \in 1..Len(calls) :
        ( /\ After(i, j) /\ Done(i)
          /\ calls[i].outcome = "ok"
          /\ calls[j].startNow - calls[i].doneNow < CACHE_DURATION )
        => /\ ~calls[j].fetched
           /\ NetworkFetches(i, j) = 1

C1_Witness ==
    \E i, j \in 1..Len(calls) :
        /\ After(i, j) /\ Done(j) /\ calls[i].outcome = "ok"
        /\ calls[i].base = calls[j].base
        /\ calls[j].startNow > calls[i].doneNow
        /\ calls[j].outcome = "hit"

\* C5: when the fetch fails while a cache entry older than the TTL exists,
\* getRates resolves (does not reject) with the rates of that entry.
C5_StaleFallback ==
    \A i \in 1..Len(calls) :
        ( /\ calls[i].outcome = "fail"
          /\ calls[i].atCatch.kind = "item"
          /\ calls[i].doneNow - calls[i].atCatch.timestamp >= CACHE_DURATION )
        => calls[i].promise = Resolved(calls[i].atCatch.rates)

C5_Witness ==
    \E i \in 1..Len(calls) :
        /\ calls[i].outcome = "fail" /\ calls[i].pre = "stale"
        /\ calls[i].atCatch.kind = "item"
        /\ calls[i].doneNow - calls[i].atCatch.timestamp > CACHE_DURATION
        /\ calls[i].promise.value = calls[i].preRates
        /\ calls[i].promise.value # FallbackRates

\* C6: when the fetch fails and there is no cache entry, getRates returns the
\* built-in table, which holds at least USD, EUR and GBP.
C6_BuiltInFallback ==
    \A i \in 1..Len(calls) :
        (calls[i].outcome = "fail" /\ calls[i].atCatch.kind = "null")
        => /\ calls[i].promise = Resolved(FallbackRates)
           /\ calls[i].promise.value.isTable
           /\ {"USD", "EUR", "GBP"} \subseteq DOMAIN calls[i].promise.value.tbl

C6_Witness ==
    \E i \in 1..Len(calls) :
        /\ calls[i].outcome = "fail" /\ calls[i].pre = "absent"
        /\ calls[i].atCatch.kind = "null"
        /\ calls[i].promise.status = "resolved"

IsRateTable(v) ==
    /\ v.isTable
    /\ \A c \in DOMAIN v.tbl : v.tbl[c] \in Nat

C8_TableForRequestedBase ==
    \A i \in 1..Len(calls) :
        ( /\ Done(i) /\ calls[i].promise.status = "resolved"
          /\ calls[i].promise.value.isTable
          /\ calls[i].base \in DOMAIN calls[i].promise.value.tbl )
        => calls[i].promise.value.tbl[calls[i].base] = RateUnit


(***************************************************************************)
(*                       Claims about AuthProvider                         *)
(***************************************************************************)

Cleared == user = Null /\ profile = NullProfile /\ isAuthenticated = FALSE

\* C2: once the handling of a profile query that failed with status 401 or
\* 403 has completed, user and profile are null and isAuthenticated is false.
C2_AuthErrorSignsOut ==
    (lastOp.op = "profileFailed" /\ lastOp.status \in {401, 403}) => Cleared

\* C3: the handling of a profile query that failed with an error other than
\* 401/403 leaves user, profile and isAuthenticated as they were and leaves
\* error non-null.
C3_TransientErrorKeepsSession ==
    [][ (lastOp'.op = "profileFailed" /\ lastOp'.status \notin {401, 403})
          => /\ user' = user
             /\ profile' = profile
             /\ isAuthenticated' = isAuthenticated
             /\ error' # Null ]_vars

C3_Witness ==
    /\ lastOp.op = "profileFailed" /\ lastOp.status = 0
    /\ lastOp.during = "nothing"
    /\ user # Null /\ profile # NullProfile /\ profile.id = user /\ isAuthenticated
    /\ error # Null

\* C4: when SIGNED_OUT is handled while the profile query started by SIGNED_IN
\* is pending, then after that query has been handled (nothing else having
\* touched the tuple in between) the tuple is not authenticated.
C4_SignedOutWins ==
    ( /\ lastOp.op \in {"profileLoaded", "profileFailed"}
      /\ lastOp.kind = "onSignedIn"
      /\ lastOp.during = "signedOut" )
    => Cleared

FetchesInFlight ==
    BagCardinality([t \in {x \in DOMAIN tasks : x.pc = "fetch"} |-> tasks[t]])

HandlersRunning ==
    BagCardinality([t \in {x \in DOMAIN tasks : x.kind = "onSignedIn"} |-> tasks[t]])

\* C9: events are handled one at a time, each handler running to completion
\* with its profile query before the next starts: no two profile queries are
\* in flight at the same time.
C9_OneFetchAtATime ==
    /\ FetchesInFlight <= 1
    /\ HandlersRunning <= 1

\* C10: a profile is never held without its session: profile # null implies
\* user # null and profile.id = user.id.
C10_ProfileHasSession ==
    profile # NullProfile => (user # Null /\ profile.id = user)


Quiescent == DOMAIN tasks = {}

\* C11: whenever no operation of the synchronizer is in progress,
\* isAuthenticated is true exactly when user is non-null.
C11_AuthenticatedIffSession ==
    Quiescent => (isAuthenticated <=> user # Null)

\* C13: after a profile query that returned a row, profile is that row,
\* isAuthenticated is true and error is null, whatever error held before.
C13_LoadClearsError ==
    lastOp.op = "profileLoaded"
      => /\ profile # NullProfile
         /\ profile = Row(profile.id, db[profile.id].rev)
         /\ isAuthenticated
         /\ error = Null


C15_Startup ==
    /\ lastOp.op = "initAuthDone" => Cleared /\ ~loading
    /\ lastOp.op = "initAuthSession"
         => /\ user # Null /\ user = session
            /\ \E t \in DOMAIN tasks :
                 t.kind = "initAuth" /\ t.pc = "fetch" /\ t.uid = user

\* initAuth found the session of u2 and awaits the profile query for u2.
C15_Witness ==
    /\ lastOp.op = "initAuthSession"
    /\ user = "u2"
    /\ \E t \in DOMAIN tasks : t.kind = "initAuth" /\ t.pc = "fetch" /\ t.uid = "u2"


\* The activations of updateProfile in ts that await their profile query.
UpdateFetches(ts) ==
    NumTasks([t \in {x \in DOMAIN ts : x.kind = "updateProfile" /\ x.pc = "fetch"}
                |-> ts[t]])

UpdateWrites(ts) ==
    NumTasks([t \in {x \in DOMAIN ts : x.kind = "updateProfile" /\ x.pc = "updateCall"}
                |-> ts[t]])

\* C14: updateProfile sends its profile query only in the step in which
\* its write returned without error; the call, the write and a failure
\* leave the local profile as it was; and with no user or a failed write no
\* query is sent, error is set and the failure is thrown to the caller.
C14_WriteThenRead ==
    [][ /\ UpdateFetches(tasks') > UpdateFetches(tasks)
          => /\ lastOp'.op = "updateWritten"
             /\ UpdateWrites(tasks') < UpdateWrites(tasks)
        /\ lastOp'.op \in {"updateStarted", "updateWritten",
                           "updateFailed", "updateRejected"}
          => profile' = profile
        /\ lastOp'.op \in {"updateFailed", "updateRejected"}
          => /\ UpdateFetches(tasks') = UpdateFetches(tasks)
             /\ error' # Null
             /\ lastOp'.threw
             /\ db' = db
      ]_vars

\* A write of updateProfile has just failed for a user who has a profile.
C14_Witness ==
    /\ lastOp.op = "updateFailed"
    /\ lastOp.threw
    /\ profile # NullProfile /\ profile.id = user
    /\ error = "UpdateError"


(***************************************************************************)
(*            Claims about getRates' writes and convertCurrency            *)
(***************************************************************************)

\* The call whose fetch is answered successfully in this step.
Succeeds(i) == calls[i].pc = "fetching" /\ calls'[i].outcome = "ok"

\* The call whose fetch fails in this step.
Fails(i) == calls[i].pc = "fetching" /\ calls'[i].outcome = "fail"

\* C16 as stated: a getRates call that found no fresh entry and whose fetch
\* succeeds returns the fetched rates and leaves both this.cache and the
\* entry under CACHE_KEY equal to {fetched rates, current time}.
C16_FetchReplacesBoth ==
    [][ \A i \in 1..Len(calls) :
          Succeeds(i)
            => /\ calls'[i].promise.status = "resolved"
               /\ \E m \in Markets : calls'[i].promise.value = ApiRates(calls[i].base, m)
               /\ cache' = Item(calls'[i].promise.value, now)
               /\ storage' = JSONstringify(cache')
      ]_vars

\* C16: a getRates call that found no fresh entry and whose fetch succeeds
\* returns the fetched rates and leaves this.cache equal to {fetched rates,
\* current time}; the entry under CACHE_KEY becomes the same snapshot when
\* setItem succeeds and stays as it was when setItem throws.
C16_FetchReplacesCache ==
    [][ \A i \in 1..Len(calls) :
          Succeeds(i)
            => /\ calls[i].pre # "fresh"
               /\ calls'[i].promise.status = "resolved"
               /\ \E m \in Markets : calls'[i].promise.value = ApiRates(calls[i].base, m)
               /\ cache' = Item(calls'[i].promise.value, now)
               /\ IF calls'[i].saved
                  THEN /\ storage' = JSONstringify(cache')
                       /\ loadFromLocalStorage(storage') = cache'
                  ELSE storage' = storage
      ]_vars

\* A call that found a stale entry has replaced it, in memory and under
\* CACHE_KEY, with a snapshot of other rates.
C16_Witness ==
    \E i \in 1..Len(calls) :
        /\ calls[i].outcome = "ok" /\ calls[i].pre = "stale" /\ calls[i].saved
        /\ cache = Item(calls[i].promise.value, calls[i].doneNow)
        /\ cache.rates # calls[i].preRates
        /\ storage = JSONstringify(cache)

\* C17: a call made while the stored data was unreadable or of another
\* shape goes to the network and, when its fetch fails with the cache still
\* in that condition, returns the built-in fallback table.
C17_CorruptedIsMiss ==
    \A i \in 1..Len(calls) :
        calls[i].pre \in {"absent", "junk"}
          => /\ calls[i].fetched
             /\ (calls[i].outcome = "fail" /\ calls[i].atCatch.kind \in {"null", "junk"})
                  => calls[i].promise = Resolved(FallbackRates)

\* C18: a convertCurrency call with the same source and target currency
\* returns the amount and starts no getRates call (hence no fetch), and
\* leaves the cache and the stored entry alone.
C18_SameCurrencyIsIdentity ==
    [][ \A k \in 1..Len(convs') :
          (k > Len(convs) /\ convs'[k].from = convs'[k].to)
            => /\ calls' = calls
               /\ cache' = cache /\ storage' = storage
               /\ convs'[k].call = 0
               /\ Converted(k)' = Returned(convs'[k].amount * RateUnit)
      ]_vars

\* A conversion of 7 USD to USD has returned 7 while the cache holds a value
\* of another shape and a fetch of another conversion is in flight.
C18_Witness ==
    \E k \in 1..Len(convs) :
        /\ convs[k].from = convs[k].to /\ convs[k].amount = 7
        /\ Converted(k) = Returned(7 * RateUnit)
        /\ cache.kind = "junk"
        /\ Fetching # {}

\* C19: a convertCurrency call with different currencies that has settled
\* has thrown "rate unavailable" when the target code is missing from what
\* its getRates call resolved with, and has returned amount times the
\* target's rate otherwise.
C19_UnavailableIffAbsent ==
    \A k \in 1..Len(convs) :
        (convs[k].from # convs[k].to /\ Converted(k).status # "pending")
          => LET rates == calls[convs[k].call].promise.value
             IN IF convs[k].to \in DOMAIN rates.tbl
                THEN Converted(k) = Returned(convs[k].amount * rates.tbl[convs[k].to])
                ELSE Converted(k) = Threw("RateUnavailable")

Succeeded == {i \in 1..Len(calls) : calls[i].outcome = "ok"}
Saved     == {i \in Succeeded : calls[i].saved}

\* The member of S whose fetch was answered last.
Last(S) == CHOOSE i \in S : \A j \in S : calls[j].order <= calls[i].order

\* The snapshot call i wrote.
Snapshot(i) == Item(calls[i].promise.value, calls[i].doneNow)

\* C20 as stated: once no fetch is in flight, this.cache and the entry
\* under CACHE_KEY are the snapshot of the fetch that succeeded last.
C20_LastSuccessInBoth ==
    (Fetching = {} /\ Succeeded # {})
      => /\ cache = Snapshot(Last(Succeeded))
         /\ storage = JSONstringify(Snapshot(Last(Succeeded)))

\* C20: every call that finds no fresh entry fetches, also while other
\* fetches are in flight; once none is in flight this.cache is the snapshot
\* of the fetch that succeeded last and the entry under CACHE_KEY is the
\* snapshot of the last successful fetch whose setItem did not throw; a
\* failing fetch changes neither.
C20_LastSuccessWins ==
    /\ [](/\ \A i \in 1..Len(calls) : calls[i].pre # "fresh" => calls[i].fetched
          /\ (Fetching = {} /\ Succeeded # {})
               => /\ cache = Snapshot(Last(Succeeded))
                  /\ Saved # {} => storage = JSONstringify(Snapshot(Last(Saved))))
    /\ [][ \A i \in 1..Len(calls) :
             Fails(i) => cache' = cache /\ storage' = storage ]_vars

\* Two calls overlapped, the one made second was answered first, both
\* succeeded with different rates, and the snapshot of the first call is
\* the one left.
C20_Witness ==
    /\ Len(calls) >= 2 /\ Fetching = {}
    /\ calls[2].openAtStart = {1}
    /\ calls[1].outcome = "ok" /\ calls[2].outcome = "ok"
    /\ calls[1].saved /\ calls[2].saved
    /\ calls[2].order < calls[1].order
    /\ calls[1].promise.value # calls[2].promise.value
    /\ cache = Snapshot(1)
    /\ storage = JSONstringify(Snapshot(1))


(***************************************************************************)
(*                     Claims about redirects and routes                   *)
(***************************************************************************)

\* C21: the step that completes a successful profile query navigates only
\* from /login or /register, to /dashboard for an employer and to /jobs for
\* an applicant; from any other location the path stays as it was.
C21_RedirectOnlyFromAuthPages ==
    [][ lastOp'.op = "profileLoaded"
          => IF path \in {"/login", "/register"}
             THEN /\ profile'.user_type \in {"employer", "applicant"}
                  /\ profile'.user_type = "employer" => path' = "/dashboard"
                  /\ profile'.user_type = "applicant" => path' = "/jobs"
             ELSE path' = path
      ]_vars

\* An employer's profile has just been loaded while the UI was at /jobs,
\* and the UI is still there.
C21_Witness ==
    /\ lastOp.op = "profileLoaded"
    /\ profile.user_type = "employer"
    /\ path = "/jobs"


\* ---- ProtectedRoute (components/ProtectedRoute) and the routes of App ----

\* What a route element renders.
View(v)      == [view |-> v, to |-> Null]
Redirect(to) == [view |-> "redirect", to |-> to]

\* The home route of a profile.
HomeOf(p) == IF p.user_type = "employer" THEN "/dashboard" ELSE "/jobs"

\* The values of the requiredUserType prop (Null: not given).
RequiredTypes == {Null, "applicant", "employer"}

ProtectedRoute_NoTypeCheck(requiredUserType) ==
    IF loading THEN View("loading")
    ELSE IF error # Null THEN View("error")
    ELSE IF user = Null THEN Redirect("/login")
    ELSE IF profile = NullProfile THEN View("loading")
    ELSE View("children")

\* ProtectedRoute with the given requiredUserType, in the current state.
ProtectedRoute(requiredUserType) ==
    IF loading THEN View("loading")
    ELSE IF error # Null THEN View("error")
    ELSE IF user = Null THEN Redirect("/login")
    ELSE IF profile = NullProfile THEN View("loading")
    ELSE IF requiredUserType # Null /\ profile.user_type # requiredUserType
         THEN Redirect(HomeOf(profile))
    ELSE View("children")

\* C22: ProtectedRoute renders its children exactly in the states with
\* loading false, error null, user and profile non-null and, when a type
\* is required, a profile of that type; otherwise it renders the loading
\* view, the error view, a redirect to /login (only when user is null) or a
\* redirect to the profile's own home (only on a type mismatch).
C22_ChildrenOnlyWhenAuthorized ==
    \A req \in RequiredTypes :
        LET r == ProtectedRoute(req)
            allowed == /\ ~loading /\ error = Null
                       /\ user # Null /\ profile # NullProfile
                       /\ (req # Null => profile.user_type = req)
        IN /\ r = View("children") <=> allowed
           /\ ~allowed => \/ r \in {View("loading"), View("error")}
                          \/ r = Redirect("/login") /\ user = Null
                          \/ /\ r = Redirect(HomeOf(profile))
                             /\ req # Null /\ profile # NullProfile
                             /\ profile.user_type # req
                             /\ HomeOf(profile) # "/login"

\* An applicant is signed in with a loaded profile: the employer routes
\* redirect to /jobs and the applicant routes render their page.
C22_Witness ==
    /\ ProtectedRoute("applicant") = View("children")
    /\ ProtectedRoute("employer") = Redirect("/jobs")
    /\ ProtectedRoute(Null) = View("children")
    /\ lastOp.op = "profileLoaded"


\* The step just taken ended an updateProfile whose promise resolved: the
\* caller (ProfilePage.onSubmit) goes on to report success.
UpdateResolved ==
    /\ lastOp.kind = "updateProfile"
    /\ lastOp.op \in {"profileLoaded", "profileFailed"}
    /\ ~lastOp.threw

\* C23: whenever updateProfile has resolved without throwing, its re-fetch
\* succeeded and the local profile is the row as it now is in the table.
C23_ResolvedMeansResynced ==
    UpdateResolved
      => /\ lastOp.op = "profileLoaded"
         /\ profile # NullProfile
         /\ profile.rev = db[profile.id].rev


\* The element of the /login and /register routes of App.
LoginRoute ==
    IF isAuthenticated THEN Redirect(HomeOf(profile)) ELSE View("page")

\* What App renders at location p once loading is false.
RouteAt(p) ==
    IF p \in {"/login", "/register"} THEN LoginRoute
    ELSE IF p = "/dashboard" THEN ProtectedRoute("employer")
    ELSE ProtectedRoute("applicant")

\* C24: in no reachable state with loading false and error null does the
\* /login route redirect to a home route that redirects back to /login.
C24_RedirectsSettle ==
    (~loading /\ error = Null /\ LoginRoute.view = "redirect")
      => RouteAt(LoginRoute.to) # Redirect("/login")


(***************************************************************************)
(*                  Claims about loading and registration                  *)
(***************************************************************************)

\* The operations that call setLoading(true).
LoadingKinds == {"initAuth", "signUp", "signIn", "signOut", "updateProfile"}

\* The activations of those operations in ts that have not ended yet.
LoadingOps(ts) ==
    NumTasks([t \in {x \in DOMAIN ts : x.kind \in LoadingKinds /\ x.pc # "resolved"}
                |-> ts[t]])

\* C25: the step in which an operation that set loading ends, normally or
\* by throwing, sets loading to false; and when every backend call
\* eventually returns, a state is reached in which no such operation is
\* running and loading is false.
C25_LoadingIsReset ==
    /\ [][ LoadingOps(tasks') < LoadingOps(tasks) => ~loading' ]_vars
    /\ (LoadingOps(tasks) > 0) ~> (LoadingOps(tasks) = 0 /\ ~loading)

\* A signUp has just ended by throwing, no operation is running and
\* loading is false.
C25_Witness ==
    /\ lastOp.op = "signUpFailed"
    /\ LoadingOps(tasks) = 0
    /\ ~loading
    /\ error = "SignUpError"

\* C30: the object RegisterPage passes to signUp has a user_type field that
\* holds the user type selected in the form.
C30_SignUpCarriesUserType ==
    lastOp.op = "signUpStarted"
      => /\ "user_type" \in DOMAIN lastOp.userData
         /\ lastOp.userData.user_type = lastOp.form.userType


(***************************************************************************)
(*                  Claims about the frame of getRates                     *)
(***************************************************************************)

\* The tables the rate API can answer with.
ApiTables == {ApiRates(b, m) : b \in Bases, m \in Markets}

\* C26: this.cache and the stored entry change only in a step in which a
\* fetch succeeds: a call that hits the cache and a failing fetch leave
\* both as they were; the cache never holds the built-in fallback table;
\* and a call made after a call that fell back to the built-in table, with
\* no successful fetch in between, goes to the network.
C26_OnlySuccessWrites ==
    /\ [][ /\ (cache' # cache \/ storage' # storage)
              => \E i \in 1..Len(calls) : Succeeds(i)
           /\ Len(calls') > Len(calls) => cache' = cache /\ storage' = storage
           /\ \A i \in 1..Len(calls) : Fails(i) => cache' = cache /\ storage' = storage
         ]_vars
    /\ [](/\ cache.kind = "item" => cache.rates \in ApiTables
          /\ cache.rates # FallbackRates
          /\ loadFromLocalStorage(storage).rates # FallbackRates
          /\ \A i, j \in 1..Len(calls) :
                 (/\ i < j
                  /\ calls[i].outcome = "fail"
                  /\ calls[i].promise = Resolved(FallbackRates)
                  /\ i \notin calls[j].openAtStart
                  /\ calls[j].pre = "absent")
                   => calls[j].fetched)

\* A call fell back to the built-in table; the call made after it found the
\* cache still empty, went to the network and failed too, and the cache is
\* empty still.
C26_Witness ==
    /\ Len(calls) = 2
    /\ calls[1].outcome = "fail" /\ calls[1].promise = Resolved(FallbackRates)
    /\ calls[2].openAtStart = {} /\ calls[2].pre = "absent"
    /\ calls[2].fetched /\ calls[2].outcome = "fail"
    /\ cache = NullCache

(***************************************************************************)
(*            CurrencyConverter (components/CurrencyConverter)             *)
(***************************************************************************)

\* The codes of the selector's list that the model offers.
Selectable == {"USD", "EUR", "GBP", "MXN"}

\* The component after its first render and effect: selectedCurrency is
\* baseCurrency, so convertAmount has set convertedAmount to amount.
Mounted(amount, base) ==
    [mounted |-> TRUE, amount |-> amount, baseCurrency |-> base,
     selectedCurrency |-> base, convertedAmount |-> amount * RateUnit,
     loading |-> FALSE]

\* convertAmount after its await: the try's setConvertedAmount(converted) or
\* the catch's setConvertedAmount(amount), then the finally.
AfterAwait(cv, r) ==
    [cv EXCEPT !.convertedAmount = IF r.status = "resolved" THEN r.value
                                   ELSE cv.amount * RateUnit,
               !.loading = FALSE]

\* The continuation, if any, that a step settling the promise of getRates
\* call i lets run: the activation of convertAmount awaiting on it.
Resume(cv, i) ==
    IF \E k \in 1..Len(convs) : convs[k].call = i
    THEN LET k == CHOOSE k \in 1..Len(convs) : convs[k].call = i
         IN AfterAwait(cv, Converted(k)')
    ELSE cv

\* A click on a code of the list: setSelectedCurrency(code), and the effect
\* on [amount, baseCurrency, selectedCurrency] calls convertAmount.
SelectCurrency(c) ==
    /\ converter.mounted
    /\ c # converter.selectedCurrency
    /\ IF c = converter.baseCurrency
       THEN /\ converter' = [converter EXCEPT !.selectedCurrency = c,
                                              !.convertedAmount = converter.amount * RateUnit]
            /\ UNCHANGED curVars
       ELSE /\ ConvertCall(converter.amount, converter.baseCurrency, c)
            /\ \E k \in {Len(convs) + 1} :
                 LET sel == [converter EXCEPT !.selectedCurrency = c, !.loading = TRUE]
                 IN converter' = IF Converted(k)'.status = "pending" THEN sel
                                 ELSE AfterAwait(sel, Converted(k)')

\* The rate request of getRates call i answers, and the conversion waiting
\* for it goes on.
ConverterFetchSuccess(i, m) ==
    /\ FetchSuccess(i, m, TRUE)
    /\ UNCHANGED convs
    /\ converter' = Resume(converter, i)

ConverterFetchFailure(i) ==
    /\ FetchFailure(i)
    /\ UNCHANGED convs
    /\ converter' = Resume(converter, i)

InitConverter ==
    /\ storage \in StoredForConvert
    /\ cache = loadFromLocalStorage(storage)
    /\ now = CACHE_DURATION
    /\ calls = <<>>
    /\ convs = <<>>
    /\ AuthIdle
    /\ converter \in {Mounted(a, b) : a \in Amounts, b \in Bases}
    /\ dashboard = Unmounted /\ appsPage = Unmounted

NextConverter ==
    \/ (\E c \in Selectable : SelectCurrency(c))
          /\ UNCHANGED <<authVars, dashboard, appsPage>>
    \/ (\E i \in 1..MaxCalls, m \in Markets : ConverterFetchSuccess(i, m))
          /\ UNCHANGED <<authVars, dashboard, appsPage>>
    \/ (\E i \in 1..MaxCalls : ConverterFetchFailure(i))
          /\ UNCHANGED <<authVars, dashboard, appsPage>>

SpecConverter == InitConverter /\ [][NextConverter]_vars

(***************************************************************************)
(*                    Claims about the CurrencyConverter                   *)
(***************************************************************************)

\* What the latest selection asks the component to show: the amount itself
\* for the base currency, else the outcome of the conversion that selection
\* started (the amount again if that conversion threw).
Selected ==
    IF converter.selectedCurrency = converter.baseCurrency
    THEN converter.amount * RateUnit
    ELSE LET r == Converted(Len(convs))
         IN IF r.status = "resolved" THEN r.value ELSE converter.amount * RateUnit

\* C27: once every conversion in flight has resolved, convertedAmount is
\* the conversion of amount into the currency now selected, whatever the
\* order in which the conversions resolved.
C27_ShowsSelectedCurrency ==
    (\A k \in 1..Len(convs) : Converted(k).status # "pending")
      => converter.convertedAmount = Selected

(***************************************************************************)
(*               DashboardPage (pages/employer/DashboardPage)              *)
(***************************************************************************)

MaxToggles == 3     \* toggleJobStatus calls in one behaviour

JobIds == {"j1", "j2"}

\* jobs.filter(job => job.is_active).length, for jobs as a map id -> is_active
ActiveCount(jobs) == Cardinality({j \in DOMAIN jobs : jobs[j]})

\* The page after loadDashboardData has resolved with the rows of the jobs
\* table: setJobs(jobsWithCounts) and setStats({..., activeJobs, ...}).
Loaded(rows) ==
    [mounted |-> TRUE,
     jobs    |-> rows,
     stats   |-> [totalJobs |-> Cardinality(DOMAIN rows), activeJobs |-> ActiveCount(rows)],
     table   |-> rows,          \* jobs.is_active at the backend
     toggles |-> <<>>]          \* the activations of toggleJobStatus, in call order

\* A click on "Activar/Desactivar empleo" of job j in the current render:
\* toggleJobStatus(job.id, job.is_active) up to its await.  The activation
\* keeps the `jobs` of the render it was created in.
ToggleJobStatus(j) ==
    /\ dashboard.mounted
    /\ Len(dashboard.toggles) < MaxToggles
    /\ dashboard' = [dashboard EXCEPT !.toggles =
           Append(@, [jobId |-> j, currentStatus |-> dashboard.jobs[j],
                      jobs |-> dashboard.jobs, pc |-> "awaiting"])]

\* The update of activation k returned without error.
ToggleOk(k) ==
    /\ dashboard.mounted
    /\ k \in 1..Len(dashboard.toggles)
    /\ dashboard.toggles[k].pc = "awaiting"
    /\ LET t == dashboard.toggles[k]
       IN dashboard' = [dashboard EXCEPT
              !.table[t.jobId] = ~t.currentStatus,
              !.jobs = [t.jobs EXCEPT ![t.jobId] = ~t.currentStatus],
              !.stats.activeJobs = IF ~t.currentStatus THEN @ + 1 ELSE @ - 1,
              !.toggles[k].pc = "done"]

\* The update of activation k returned an error: the catch only toasts.
ToggleFails(k) ==
    /\ dashboard.mounted
    /\ k \in 1..Len(dashboard.toggles)
    /\ dashboard.toggles[k].pc = "awaiting"
    /\ dashboard' = [dashboard EXCEPT !.toggles[k].pc = "failed"]

InitDashboard ==
    /\ CurrencyIdle
    /\ AuthIdle
    /\ converter = Unmounted /\ appsPage = Unmounted
    /\ dashboard \in {Loaded(rows) : rows \in [JobIds -> BOOLEAN]}

NextDashboard ==
    \/ (\E j \in JobIds : ToggleJobStatus(j))
          /\ UNCHANGED <<curVars, authVars, converter, appsPage>>
    \/ (\E k \in 1..MaxToggles : ToggleOk(k))
          /\ UNCHANGED <<curVars, authVars, converter, appsPage>>
    \/ (\E k \in 1..MaxToggles : ToggleFails(k))
          /\ UNCHANGED <<curVars, authVars, converter, appsPage>>

SpecDashboard == InitDashboard /\ [][NextDashboard]_vars

(***************************************************************************)
(*                       Claims about the dashboard                        *)
(***************************************************************************)

\* C28: after any sequence of toggleJobStatus calls, overlapping and
\* failing ones included, stats.activeJobs is the number of jobs of the
\* local list with is_active = true.
C28_ActiveJobsCounted ==
    dashboard.stats.activeJobs = ActiveCount(dashboard.jobs)

(***************************************************************************)
(*        JobApplicationsPage (pages/employer/JobApplicationsPage)         *)
(***************************************************************************)

MaxClicks == 3      \* calls of updateApplicationStatus in one behaviour

AppIds   == {"a1", "a2"}
Statuses == {"pending", "accepted", "rejected"}
Decisions == {"accepted", "rejected"}      \* what the two buttons pass

\* The page after loadJobAndApplications has resolved with the rows of the
\* applications table.
LoadedApps(rows) ==
    [mounted      |-> TRUE,
     applications |-> rows,
     updating     |-> FALSE,
     table        |-> rows,     \* applications.status at the backend
     reqs         |-> <<>>,     \* the update requests sent, in order
     clicks       |-> 0]        \* calls of updateApplicationStatus so far

Busy_Never(p) == FALSE

\* if (updating) return
Busy(p) == p.updating

\* A click on "Aceptar" or "Rechazar" of application a, which the page
\* renders for pending applications only: updateApplicationStatus(a, s) up
\* to its await.
UpdateApplicationStatus(a, s) ==
    /\ appsPage.mounted
    /\ appsPage.clicks < MaxClicks
    /\ appsPage.applications[a] = "pending"
    /\ IF Busy(appsPage)
       THEN appsPage' = [appsPage EXCEPT !.clicks = @ + 1]
       ELSE appsPage' = [appsPage EXCEPT
                !.clicks = @ + 1,
                !.updating = TRUE,
                !.reqs = Append(@, [id |-> a, status |-> s, pc |-> "sent"])]

\* Request k returned without error: setApplications(apps => ...), the
\* toast, and the finally.
UpdateOk(k) ==
    /\ appsPage.mounted
    /\ k \in 1..Len(appsPage.reqs)
    /\ appsPage.reqs[k].pc = "sent"
    /\ LET r == appsPage.reqs[k]
       IN appsPage' = [appsPage EXCEPT
              !.table[r.id] = r.status,
              !.applications[r.id] = r.status,
              !.updating = FALSE,
              !.reqs[k].pc = "ok"]

\* Request k returned an error: the catch, and the finally.
UpdateFails(k) ==
    /\ appsPage.mounted
    /\ k \in 1..Len(appsPage.reqs)
    /\ appsPage.reqs[k].pc = "sent"
    /\ appsPage' = [appsPage EXCEPT !.updating = FALSE, !.reqs[k].pc = "failed"]

InitApplications ==
    /\ CurrencyIdle
    /\ AuthIdle
    /\ converter = Unmounted /\ dashboard = Unmounted
    /\ appsPage \in {LoadedApps(rows) : rows \in [AppIds -> Statuses]}

NextApplications ==
    \/ (\E a \in AppIds, s \in Decisions : UpdateApplicationStatus(a, s))
          /\ UNCHANGED <<curVars, authVars, converter, dashboard>>
    \/ (\E k \in 1..MaxClicks : UpdateOk(k))
          /\ UNCHANGED <<curVars, authVars, converter, dashboard>>
    \/ (\E k \in 1..MaxClicks : UpdateFails(k))
          /\ UNCHANGED <<curVars, authVars, converter, dashboard>>

SpecApplications == InitApplications /\ [][NextApplications]_vars

(***************************************************************************)
(*                  Claims about the applications page                     *)
(***************************************************************************)

\* The update requests in flight.
Sent(p) == {k \in 1..Len(p.reqs) : p.reqs[k].pc = "sent"}

\* C29: at most one status update is in flight at a time, and a call made
\* while `updating` is true has no effect; the local status of an
\* application changes only in the step in which its update succeeded at
\* the backend, and only from pending to accepted or rejected; a failed
\* update leaves the local list as it was and resets `updating`.
C29_OneUpdateAtATime ==
    /\ [](Cardinality(Sent(appsPage)) <= 1)
    /\ [][ /\ (appsPage.updating /\ appsPage'.clicks > appsPage.clicks)
              => /\ appsPage'.applications = appsPage.applications
                 /\ appsPage'.table = appsPage.table
                 /\ appsPage'.reqs = appsPage.reqs
                 /\ appsPage'.updating
           /\ \A a \in AppIds :
                 appsPage'.applications[a] # appsPage.applications[a]
                   => /\ appsPage.applications[a] = "pending"
                      /\ appsPage'.applications[a] \in Decisions
                      /\ appsPage'.table[a] = appsPage'.applications[a]
                      /\ \E k \in Sent(appsPage) :
                            /\ appsPage.reqs[k].id = a
                            /\ appsPage'.reqs[k].pc = "ok"
           /\ \A k \in Sent(appsPage) :
                 appsPage'.reqs[k].pc = "failed"
                   => /\ appsPage'.applications = appsPage.applications
                      /\ ~appsPage'.updating
         ]_vars

\* A first update failed, a call made while it was in flight was ignored,
\* and a later update of a pending application succeeded.
C29_Witness ==
    /\ appsPage.mounted
    /\ appsPage.clicks = 3 /\ Len(appsPage.reqs) = 2
    /\ appsPage.reqs[1].pc = "failed" /\ appsPage.reqs[2].pc = "ok"
    /\ appsPage.applications[appsPage.reqs[2].id] = appsPage.reqs[2].status
    /\ ~appsPage.updating

====
